---- MODULE Spec2Model ----
(***************************************************************************)
(* State-machine model of FactorizedEPDriver::sequentialUpdate             *)
(* (src/src/eptools/FactorizedEPDriver.h): the sequential expectation      *)
(* propagation update on one potential t_j, with damping, selective        *)
(* damping against the maximum-pi index, and the bivariate precision       *)
(* extension.                                                              *)
(*                                                                         *)
(* Numbers.  The driver computes in doubles; the model computes in exact   *)
(* rational arithmetic.  A rational is a pair <<n, d>> with d > 0 and      *)
(* gcd(n, d) = 1.  The thresholds 1e-6 and 1e-10 of the source are kept as *)
(* powers of ten and compared without forming 10^10.  The relative-change  *)
(* output '*delta' (lines 460, 468-471, 475-478) needs sqrt, touches no    *)
(* state and is not modelled.                                              *)
(***************************************************************************)
EXTENDS Integers, Sequences, FiniteSets, TLC

\* ------------------------------------------------------------------------
\* Rational arithmetic
\* ------------------------------------------------------------------------

RECURSIVE GCD(_, _)
GCD(a, b) ==
    IF b = 0 THEN a ELSE GCD(b, a % b)

IAbs(n) ==
    IF n < 0 THEN -n ELSE n

\* n/d with the sign moved to the numerator and both divided by g.
Reduce(n, d, g) ==
    IF d < 0 THEN <<(-n) \div g, (-d) \div g>> ELSE <<n \div g, d \div g>>

\* The rational n/d (d # 0) in lowest terms with a positive denominator.
Norm(n, d) ==
    Reduce(n, d, GCD(IAbs(n), IAbs(d)))

R(n) ==
    <<n, 1>>

Q(n, d) ==
    Norm(n, d)

RNeg(x) ==
    <<-x[1], x[2]>>

\* x + y over the denominator x[2]*y[2]/g, g the gcd of the denominators.
AddOver(x, y, g) ==
    Norm(x[1] * (y[2] \div g) + y[1] * (x[2] \div g), (x[2] \div g) * y[2])

RAdd(x, y) ==
    AddOver(x, y, GCD(x[2], y[2]))

RSub(x, y) ==
    RAdd(x, RNeg(y))

\* x * y with the common factors g1 of x[1], y[2] and g2 of y[1], x[2]
\* cancelled before multiplying.
MulCancel(x, y, g1, g2) ==
    Norm((x[1] \div g1) * (y[1] \div g2), (x[2] \div g2) * (y[2] \div g1))

RMul(x, y) ==
    MulCancel(x, y, GCD(IAbs(x[1]), y[2]), GCD(IAbs(y[1]), x[2]))

\* x / y for y # 0.
RDiv(x, y) ==
    RMul(x, Norm(y[2], y[1]))

\* a/b < c/d for b, d > 0, by comparing the continued fractions: no
\* product is formed.
RECURSIVE FracLt(_, _, _, _)
FracLt(a, b, c, d) ==
    IF a \div b # c \div d THEN a \div b < c \div d
    ELSE IF c % d = 0 THEN FALSE
    ELSE IF a % b = 0 THEN TRUE
    ELSE FracLt(d, c % d, b, a % b)

\* Cross-multiplying x and y stays far inside the integer range.
CrossSafe ==
    30000

IsSmall(x) ==
    IAbs(x[1]) < CrossSafe /\ x[2] < CrossSafe

RLt(x, y) ==
    IF IsSmall(x) /\ IsSmall(y)
    THEN x[1] * y[2] < y[1] * x[2]
    ELSE FracLt(x[1], x[2], y[1], y[2])

RLe(x, y) ==
    ~RLt(y, x)

RIsZero(x) ==
    x[1] = 0

\* std::min(a, b) and std::max(a, b): the first argument unless the second
\* is strictly smaller (larger).
RMin(a, b) ==
    IF RLt(b, a) THEN b ELSE a

RMax(a, b) ==
    IF RLt(a, b) THEN b ELSE a

RAbs(x) ==
    <<IAbs(x[1]), x[2]>>

\* q >= 10^k for a natural q.
RECURSIVE GePow10(_, _)
GePow10(q, k) ==
    IF k = 0 THEN q >= 1 ELSE GePow10(q \div 10, k - 1)

\* x < 10^-k, i.e. n * 10^k < d.
LtPow10(x, k) ==
    IF x[1] <= 0 THEN TRUE ELSE GePow10((x[2] - 1) \div x[1], k)

\* x > 10^-k for x >= 0, i.e. n * 10^k > d.
GtPow10(x, k) ==
    IF x[1] <= 0 THEN FALSE ELSE ~GePow10(x[2] \div x[1], k)


\* ------------------------------------------------------------------------
\* Program constants
\* ------------------------------------------------------------------------

updSuccess ==
    0

updCavityInvalid ==
    1

updNumericalError ==
    2

updMarginalsInvalid ==
    3

updCavCondSkipped ==
    4

\* fabs(bval) > 1e-6 (line 364): the exponent of the threshold.
BvalExp ==
    6

\* denominator < 1e-10 (lines 368, 382): the exponent of the threshold.
DenomExp ==
    10

\* temp <= 0.02 (lines 401, 429).
SkipThres ==
    Q(1, 50)

\* ------------------------------------------------------------------------
\* State
\* ------------------------------------------------------------------------

VARIABLES
    vjInd,       \* epRepr: j -> V_j, the row's variable indices in row order
    bP,          \* epRepr: j -> the row's coefficients b_ji
    betaP,       \* epRepr: j -> the row's message parameters beta_ji
    piP,         \* epRepr: j -> the row's message parameters pi_ji
    tauInd,      \* epReprPrec: j -> k(j)          (bivariate mode only)
    aP,          \* epReprPrec: j -> a_j           (bivariate mode only)
    cP,          \* epReprPrec: j -> c_j           (bivariate mode only)
    margBeta,    \* i -> beta_i
    margPi,      \* i -> pi_i
    margA,       \* k -> a_k                       (bivariate mode only)
    margC,       \* k -> c_k                       (bivariate mode only)
    piMinThres,
    aMinThres,
    cMinThres,
    hasBVPrec,   \* epReprPrec != 0
    epMaxPi,     \* [given, maxv]: maxv[i][j] is the entry of factor j for i
    epMaxA,      \* [given, maxv]: maxv[k][j]
    epMaxC,      \* [given, maxv]: maxv[k][j]
    epPots,      \* j -> the answers compMoments of potential j can give
    calls,       \* number of sequentialUpdate calls made
    pre,         \* the mutable state before the last call
    last,        \* the last call: arguments, oracle answer, outputs
    replay,      \* the mutable state of a second driver constructed alike,
                 \* on which only the calls that returned updSuccess are made
    oracleFailures  \* number of calls in which compMoments returned false

vars ==
    <<vjInd, bP, betaP, piP, tauInd, aP, cP, margBeta, margPi, margA, margC,
      piMinThres, aMinThres, cMinThres, hasBVPrec, epMaxPi, epMaxA, epMaxC,
      epPots, calls, pre, last, replay, oracleFailures>>

\* The part of the state that sequentialUpdate or the objects it calls can
\* write: messages, marginals and the maximum-value indices.
Cur ==
    [betaP |-> betaP, piP |-> piP, aP |-> aP, cP |-> cP,
     margBeta |-> margBeta, margPi |-> margPi, margA |-> margA,
     margC |-> margC, epMaxPi |-> epMaxPi.maxv, epMaxA |-> epMaxA.maxv,
     epMaxC |-> epMaxC.maxv]

Factors ==
    DOMAIN vjInd

Variables ==
    DOMAIN margPi

vjSz(j) ==
    Len(vjInd[j])

\* 0.5*piMinThres (line 275).
thres2 ==
    RMul(Q(1, 2), piMinThres)

\* ------------------------------------------------------------------------
\* Maximum-value index (FactEPMaximumPiValues and its a, c analogues)
\* ------------------------------------------------------------------------

\* The largest element of a non-empty finite set of rationals.
RMaxOf(S) ==
    CHOOSE x \in S : \A y \in S : RLe(y, x)

\* getMaxValue(i): the largest entry stored for i.
getMaxValue(maxv, i) ==
    RMaxOf({maxv[i][j] : j \in DOMAIN maxv[i]})

\* update(i, j, val): replace the entry of (i, j).
MaxUpdate(maxv, i, j, val) ==
    [maxv EXCEPT ![i][j] = val]

\* ------------------------------------------------------------------------
\* sequentialUpdate, phase by phase.  's' is the mutable state read by the
\* call (a record shaped like Cur), 'ii' a row position 1..vjSz(j).
\* ------------------------------------------------------------------------

\* Cavity parameters of row position ii (lines 314, 316).
cavPi(s, j, ii) ==
    RSub(s.margPi[vjInd[j][ii]], s.piP[j][ii])

cavBeta(s, j, ii) ==
    RSub(s.margBeta[vjInd[j][ii]], s.betaP[j][ii])

\* Cavity parameters of the precision variable k(j) (lines 325, 327).
cavA(s, j) ==
    RSub(s.margA[tauInd[j]], s.aP[j])

cavC(s, j) ==
    RSub(s.margC[tauInd[j]], s.cP[j])

\* As CavityInvalidPi, but the cavity precision is compared with piMinThres
\* itself.
CavityInvalidPi_FullThres(s, j) ==
    \E ii \in 1..vjSz(j) : RLt(cavPi(s, j, ii), piMinThres)

\* The cavity loop returns updCavityInvalid (line 315).
CavityInvalidPi(s, j) ==
    \E ii \in 1..vjSz(j) : RLt(cavPi(s, j, ii), thres2)

\* The bivariate cavity checks return updCavityInvalid (lines 324-329).
CavityInvalidTau(s, j) ==
    /\ hasBVPrec
    /\ \/ RLt(cavA(s, j), RMul(Q(1, 2), aMinThres))
       \/ RLt(cavC(s, j), RMul(Q(1, 2), cMinThres))

\* The denominator of the undamped update of row position ii:
\* pi_{-ji}/b^2 - nu for |b| > 1e-6 (lines 367-368), pi_{-ji} - nu*b^2
\* otherwise (line 382).
\* |b_ji| large enough for the simpler equations (line 364).
BvalLarge(bval) ==
    GtPow10(RAbs(bval), BvalExp)

\* As Denom, but pi_{-ji} is divided by b_ji once only.
Denom_NoSquare(bval, cPi, nu) ==
    IF BvalLarge(bval)
    THEN RSub(RDiv(cPi, bval), nu)
    ELSE RSub(cPi, RMul(RMul(nu, bval), bval))

Denom(bval, cPi, nu) ==
    IF BvalLarge(bval)
    THEN RSub(RDiv(RDiv(cPi, bval), bval), nu)
    ELSE RSub(cPi, RMul(RMul(nu, bval), bval))

UpdDenom(s, j, ii, nu) ==
    Denom(bP[j][ii], cavPi(s, j, ii), nu)

\* The undamped update fails on row position ii (lines 368-375, 382-383).
DenomTooSmall(s, j, ii, nu) ==
    LtPow10(UpdDenom(s, j, ii, nu), DenomExp)

\* tilde{pi}_ji: undamped new message precision (lines 376-377, 384-385).
PrPi(bval, cPi, nu, den) ==
    IF BvalLarge(bval)
    THEN RMul(RMul(RDiv(R(1), den), cPi), nu)
    ELSE RMul(RMul(RMul(RDiv(bval, den), bval), nu), cPi)

UndampedPi(s, j, ii, nu) ==
    PrPi(bP[j][ii], cavPi(s, j, ii), nu, UpdDenom(s, j, ii, nu))

\* tilde{beta}_ji: undamped new message parameter (lines 378, 386).
PrBeta(bval, cPi, cBeta, alpha, nu, den) ==
    IF BvalLarge(bval)
    THEN RMul(RDiv(R(1), den),
              RAdd(RMul(cBeta, nu), RMul(RDiv(cPi, bval), alpha)))
    ELSE RMul(RDiv(bval, den),
              RAdd(RMul(RMul(cBeta, bval), nu), RMul(cPi, alpha)))

UndampedBeta(s, j, ii, alpha, nu) ==
    PrBeta(bP[j][ii], cavPi(s, j, ii), cavBeta(s, j, ii), alpha, nu,
           UpdDenom(s, j, ii, nu))

\* Selective damping is entered for row position ii (line 390).
SelDampActive(s, j, ii, prPi) ==
    epMaxPi.given /\ RLt(prPi, s.piP[j][ii])

\* As OneMinusEta, but piMinThres is not subtracted.
OneMinusEta_NoThres(s, j, ii, prPi) ==
    RMin(RDiv(RSub(s.margPi[vjInd[j][ii]],
                   getMaxValue(s.epMaxPi, vjInd[j][ii])),
              RSub(s.piP[j][ii], prPi)),
         R(1))

\* 'temp', the value for 1-eta (line 400); piP[ii] - prPi > 0 here.
OneMinusEta(s, j, ii, prPi) ==
    RMin(RDiv(RSub(RSub(s.margPi[vjInd[j][ii]],
                        getMaxValue(s.epMaxPi, vjInd[j][ii])),
                   piMinThres),
              RSub(s.piP[j][ii], prPi)),
         R(1))

\* As RaiseDamp, but the damping factor passed in is overwritten.
RaiseDamp_Overwrite(dampFact, temp) ==
    RSub(R(1), temp)

\* As RaiseDamp, but the damping factor passed in is kept.
RaiseDamp_Keep(dampFact, temp) ==
    dampFact

\* dampFact after the selective damping of row position ii (line 415).
RaiseDamp(dampFact, temp) ==
    RMax(dampFact, RSub(R(1), temp))

\* What the second loop (lines 356-417) leaves: whether it returned, with
\* which status, whether *effDamp was written, and otherwise the final
\* dampFact and the arrays mprPiP, mprBetaP.
LoopResult(ret, status, effSet, dampFact, mprPi, mprBeta) ==
    [ret |-> ret, status |-> status, effSet |-> effSet,
     dampFact |-> dampFact, mprPi |-> mprPi, mprBeta |-> mprBeta]

\* The second loop from row position ii on, with the damping factor and
\* the undamped parameters accumulated so far; LoopEntry is the part of
\* the body after prPi, prBeta and 'temp' have been computed (lines
\* 388-416).
RECURSIVE UndampedLoop(_, _, _, _, _, _, _)
RECURSIVE LoopEntry(_, _, _, _, _, _, _, _)
UndampedLoop(s, j, ii, orc, dampFact, mprPi, mprBeta) ==
    IF ii > vjSz(j)
    THEN LoopResult(FALSE, updSuccess, FALSE, dampFact, mprPi, mprBeta)
    ELSE IF DenomTooSmall(s, j, ii, orc.nu)
    THEN LoopResult(TRUE, updNumericalError, FALSE, dampFact, mprPi,
                    mprBeta)
    ELSE LoopEntry(s, j, ii, orc, dampFact,
                   Append(mprPi, UndampedPi(s, j, ii, orc.nu)),
                   Append(mprBeta,
                          UndampedBeta(s, j, ii, orc.alpha, orc.nu)),
                   UndampedPi(s, j, ii, orc.nu))

LoopEntry(s, j, ii, orc, dampFact, mprPi, mprBeta, prPi) ==
    IF ~SelDampActive(s, j, ii, prPi)
    THEN UndampedLoop(s, j, ii + 1, orc, dampFact, mprPi, mprBeta)
    ELSE IF RLe(getMaxValue(s.epMaxPi, vjInd[j][ii]), R(0))
    THEN LoopResult(TRUE, updNumericalError, FALSE, dampFact, mprPi,
                    mprBeta)
    ELSE IF RLe(OneMinusEta(s, j, ii, prPi), SkipThres)
    THEN LoopResult(TRUE, updCavCondSkipped, TRUE, R(1), mprPi, mprBeta)
    ELSE UndampedLoop(s, j, ii + 1, orc,
                      RaiseDamp(dampFact, OneMinusEta(s, j, ii, prPi)),
                      mprPi, mprBeta)

\* New message parameters of the precision variable without damping
\* (line 421).
UndampedA(s, j, orc) ==
    RSub(orc.hatA, cavA(s, j))

UndampedC(s, j, orc) ==
    RSub(orc.hatC, cavC(s, j))

\* The bivariate selective damping is entered (lines 418, 423).
TauClampActive(s, j, orc) ==
    /\ hasBVPrec
    /\ epMaxA.given
    /\ RLt(UndampedA(s, j, orc), s.aP[j])

\* Numerator and denominator of 'temp' in line 427.  After the second loop
\* 'i' is the last variable of the row, 'prPi' the last undamped precision
\* and 'ii' equals vjSz, so that piP[ii] is read one past the end of the
\* row: 'oob' stands for whatever that read produces.
TauClampNum(s, j) ==
    RSub(RSub(s.margPi[vjInd[j][vjSz(j)]],
              RMax(getMaxValue(s.epMaxA, tauInd[j]), R(0))),
         piMinThres)

TauClampDen(lastPrPi, oob) ==
    RSub(oob, lastPrPi)

\* temp <= 0.02 in line 429, with the double quotient: x/0 is -inf for
\* x < 0 (skip), +inf for x > 0 (temp = 1) and NaN for x = 0 (every
\* comparison false).
TempSkips(num, den) ==
    IF RIsZero(den)
    THEN RLt(num, R(0))
    ELSE RLe(RMin(RDiv(num, den), R(1)), SkipThres)

TauClampSkips(s, j, lastPrPi, oob) ==
    TempSkips(TauClampNum(s, j), TauClampDen(lastPrPi, oob))

\* dampFact after line 434.
TempDamp(num, den, dampFact) ==
    IF RIsZero(den)
    THEN dampFact
    ELSE RaiseDamp(dampFact, RMin(RDiv(num, den), R(1)))

TauClampDamp(s, j, lastPrPi, oob, dampFact) ==
    TempDamp(TauClampNum(s, j), TauClampDen(lastPrPi, oob), dampFact)

\* As DampedPi, but the damping is left out.
DampedPi_Undamped(s, j, ii, dampFact, prPi) ==
    prPi

\* New message parameters with damping (lines 443-451).
DampedPi(s, j, ii, dampFact, prPi) ==
    IF RLt(R(0), dampFact)
    THEN RAdd(prPi, RMul(dampFact, RSub(s.piP[j][ii], prPi)))
    ELSE prPi

DampedBeta(s, j, ii, dampFact, prBeta) ==
    IF RLt(R(0), dampFact)
    THEN RAdd(prBeta, RMul(dampFact, RSub(s.betaP[j][ii], prBeta)))
    ELSE prBeta

\* As NewMargPi, but the new message is added to the old marginal instead
\* of the cavity.
NewMargPi_OnMarginal(s, j, ii, dampFact, prPi) ==
    RAdd(s.margPi[vjInd[j][ii]], DampedPi(s, j, ii, dampFact, prPi))

\* New marginals (lines 454, 456).
NewMargPi(s, j, ii, dampFact, prPi) ==
    RAdd(cavPi(s, j, ii), DampedPi(s, j, ii, dampFact, prPi))

NewMargBeta(s, j, ii, dampFact, prBeta) ==
    RAdd(cavBeta(s, j, ii), DampedBeta(s, j, ii, dampFact, prBeta))

\* As NewMarginalsInvalid, but a new marginal precision is only refused
\* when negative.
NewMarginalsInvalid_Negative(s, j, dampFact, mprPi) ==
    \E ii \in 1..vjSz(j) :
        RLt(NewMargPi(s, j, ii, dampFact, mprPi[ii]), R(0))

\* As NewMarginalsInvalid, but only the first row position is looked at.
NewMarginalsInvalid_FirstOnly(s, j, dampFact, mprPi) ==
    RLt(NewMargPi(s, j, 1, dampFact, mprPi[1]), thres2)

\* The third loop returns updMarginalsInvalid (lines 454-455).
NewMarginalsInvalid(s, j, dampFact, mprPi) ==
    \E ii \in 1..vjSz(j) :
        RLt(NewMargPi(s, j, ii, dampFact, mprPi[ii]), thres2)

\* As Written, but the index is updated before piP[ii] is assigned: it is
\* handed the old message.
Written_StaleIndex(acc, j, ii, i, nBeta, nPi, nMargBeta, nMargPi) ==
    [acc EXCEPT
        !.betaP[j][ii] = nBeta,
        !.piP[j][ii] = nPi,
        !.margBeta[i] = nMargBeta,
        !.margPi[i] = nMargPi,
        !.epMaxPi = IF epMaxPi.given
                    THEN MaxUpdate(@, i, j, acc.piP[j][ii])
                    ELSE @,
        !.updLog = IF epMaxPi.given
                   THEN Append(@, <<i, j, acc.piP[j][ii]>>)
                   ELSE @]

\* As Written, but the marginals are written at the row position instead
\* of the variable index i = vjInd[j][ii].
Written_AtRowPosition(acc, j, ii, i, nBeta, nPi, nMargBeta, nMargPi) ==
    [acc EXCEPT
        !.betaP[j][ii] = nBeta,
        !.piP[j][ii] = nPi,
        !.margBeta[ii - 1] = nMargBeta,
        !.margPi[ii - 1] = nMargPi,
        !.epMaxPi = IF epMaxPi.given THEN MaxUpdate(@, i, j, nPi) ELSE @,
        !.updLog = IF epMaxPi.given THEN Append(@, <<i, j, nPi>>) ELSE @]

\* The write of row position ii in the last loop (lines 466, 467, 472-473)
\* applied to 'acc'; the values written were computed from the state 's'
\* the call started in.  'acc' carries, beside the state, the list updLog
\* of the update(i, j, val) calls made on the maximum-pi index so far.
Written(acc, j, ii, i, nBeta, nPi, nMargBeta, nMargPi) ==
    [acc EXCEPT
        !.betaP[j][ii] = nBeta,
        !.piP[j][ii] = nPi,
        !.margBeta[i] = nMargBeta,
        !.margPi[i] = nMargPi,
        !.epMaxPi = IF epMaxPi.given THEN MaxUpdate(@, i, j, nPi) ELSE @,
        !.updLog = IF epMaxPi.given THEN Append(@, <<i, j, nPi>>) ELSE @]

WriteEntry(s, acc, j, ii, dampFact, mprPi, mprBeta) ==
    Written(acc, j, ii, vjInd[j][ii],
            DampedBeta(s, j, ii, dampFact, mprBeta[ii]),
            DampedPi(s, j, ii, dampFact, mprPi[ii]),
            NewMargBeta(s, j, ii, dampFact, mprBeta[ii]),
            NewMargPi(s, j, ii, dampFact, mprPi[ii]))

\* The last loop (lines 461-474) from row position ii on.
RECURSIVE WriteBack(_, _, _, _, _, _, _)
WriteBack(s, acc, j, ii, dampFact, mprPi, mprBeta) ==
    IF ii > vjSz(j)
    THEN acc
    ELSE WriteBack(s, WriteEntry(s, acc, j, ii, dampFact, mprPi, mprBeta),
                   j, ii + 1, dampFact, mprPi, mprBeta)

\* The state 's' with an empty list of index updates.
WithLog(s) ==
    [f \in DOMAIN s \cup {"updLog"} |-> IF f = "updLog" THEN <<>> ELSE s[f]]

\* What a return leaves behind: status, whether and what *effDamp was
\* written, whether compMoments was called, whether piP[vjSz] was read,
\* the state and the index updates made.
Outcome(status, effSet, effDamp, called, oobRead, post) ==
    [status |-> status, effSet |-> effSet, effDamp |-> effDamp,
     called |-> called, oobRead |-> oobRead, post |-> post,
     updLog |-> post.updLog]

\* As Finish, but the third loop writes messages and marginals as it goes,
\* so that they are written when it returns updMarginalsInvalid.
Finish_WriteThrough(s, j, u, d, tau) ==
    IF NewMarginalsInvalid(s, j, d, u.mprPi)
    THEN Outcome(updMarginalsInvalid, TRUE, d, TRUE, tau,
                 WriteBack(s, WithLog(s), j, 1, d, u.mprPi, u.mprBeta))
    ELSE Outcome(updSuccess, TRUE, d, TRUE, tau,
                 WriteBack(s, WithLog(s), j, 1, d, u.mprPi, u.mprBeta))

\* Lines 437-480: the third loop and the write-back, with the effective
\* damping factor d; 'tau' says whether the bivariate clamp was entered.
Finish(s, j, u, d, tau) ==
    IF NewMarginalsInvalid(s, j, d, u.mprPi)
    THEN Outcome(updMarginalsInvalid, TRUE, d, TRUE, tau, WithLog(s))
    ELSE Outcome(updSuccess, TRUE, d, TRUE, tau,
                 WriteBack(s, WithLog(s), j, 1, d, u.mprPi, u.mprBeta))

\* Lines 418-480: everything after the second loop ran to its end with
\* result 'u'.
AfterUndamped(s, j, orc, oob, u) ==
    IF ~TauClampActive(s, j, orc)
    THEN Finish(s, j, u, u.dampFact, FALSE)
    ELSE IF TauClampSkips(s, j, u.mprPi[vjSz(j)], oob)
    THEN Outcome(updCavCondSkipped, TRUE, R(1), TRUE, TRUE, WithLog(s))
    ELSE Finish(s, j, u,
                TauClampDamp(s, j, u.mprPi[vjSz(j)], oob, u.dampFact),
                TRUE)

\* Lines 356-480, 'u' the result of the second loop.
AfterLoop(s, j, orc, oob, u) ==
    IF u.ret
    THEN Outcome(u.status, u.effSet, u.dampFact, TRUE, FALSE, WithLog(s))
    ELSE AfterUndamped(s, j, orc, oob, u)

\* As SeqUpdate, but compMoments is called before the cavities are
\* checked.
SeqUpdate_OracleFirst(s, j, dampFact, orc, oob) ==
    IF ~orc.ok
    THEN Outcome(updNumericalError, FALSE, R(0), TRUE, FALSE, WithLog(s))
    ELSE IF CavityInvalidPi(s, j) \/ CavityInvalidTau(s, j)
    THEN Outcome(updCavityInvalid, FALSE, R(0), TRUE, FALSE, WithLog(s))
    ELSE AfterLoop(s, j, orc, oob,
                   UndampedLoop(s, j, 1, orc, dampFact, <<>>, <<>>))

\* sequentialUpdate(j, dampFact, delta, effDamp) for 0 <= dampFact < 1 in
\* state 's', when compMoments would answer 'orc' and the read past the
\* row would give 'oob'.
SeqUpdate(s, j, dampFact, orc, oob) ==
    IF CavityInvalidPi(s, j) \/ CavityInvalidTau(s, j)
    THEN Outcome(updCavityInvalid, FALSE, R(0), FALSE, FALSE, WithLog(s))
    ELSE IF ~orc.ok
    THEN Outcome(updNumericalError, FALSE, R(0), TRUE, FALSE, WithLog(s))
    ELSE AfterLoop(s, j, orc, oob,
                   UndampedLoop(s, j, 1, orc, dampFact, <<>>, <<>>))

\* ------------------------------------------------------------------------
\* Initial states: representations, marginals, thresholds and potentials a
\* driver can be constructed on (the constructors check sizes and that
\* the thresholds are positive, lines 145, 189-191).
\* ------------------------------------------------------------------------

\* The 0-based array with the elements of a tuple.
Z(seq) ==
    [x \in 0..(Len(seq) - 1) |-> seq[x + 1]]

\* An answer of compMoments: ret[0..3] = alpha, nu, hatA, hatC (lines 347,
\* 350); hatA, hatC are read in bivariate mode only.
Ans(alpha, nu, hatA, hatC) ==
    [ok |-> TRUE, alpha |-> alpha, nu |-> nu, hatA |-> hatA, hatC |-> hatC]

\* compMoments returns false (line 337).
AnsFail ==
    [ok |-> FALSE, alpha |-> R(0), nu |-> R(0), hatA |-> R(0), hatC |-> R(0)]

GenericAnswers ==
    {Ans(R(0), R(0), R(1), R(2)),
     Ans(R(1), Q(1, 2), R(4), R(2)),
     Ans(R(1), R(-3), R(1), R(2)),
     Ans(R(0), R(1), R(4), R(2))}

RepCfg(v, b, be, pi, mb, mp, eps, pots) ==
    [vjInd |-> Z(v), bP |-> Z(b), betaP |-> Z(be), piP |-> Z(pi),
     margBeta |-> Z(mb), margPi |-> Z(mp), piMinThres |-> eps,
     epPots |-> Z(pots)]

\* Two potentials on the same two variables, rows in opposite order.
CfgB1 ==
    RepCfg(<< <<0, 1>>, <<1, 0>> >>,
           << <<R(1), R(1)>>, <<R(1), R(1)>> >>,
           << <<R(1), R(0)>>, <<R(0), R(0)>> >>,
           << <<R(1), R(1)>>, <<R(1), R(1)>> >>,
           <<R(1), R(0)>>, <<R(2), R(2)>>, R(1),
           <<GenericAnswers, GenericAnswers>>)

CfgB2 ==
    RepCfg(<< <<0, 1>>, <<1, 0>> >>,
           << <<R(1), R(2)>>, <<R(1), R(1)>> >>,
           << <<R(0), R(1)>>, <<R(0), R(0)>> >>,
           << <<R(3), R(3)>>, <<R(2), R(2)>> >>,
           <<R(0), R(1)>>, <<R(5), R(5)>>, R(1),
           <<GenericAnswers, GenericAnswers>>)

\* All messages zero, the marginals hold the other parts of the model only.
CfgB3 ==
    RepCfg(<< <<0, 1>>, <<1, 0>> >>,
           << <<R(1), R(0)>>, <<R(1), R(1)>> >>,
           << <<R(0), R(0)>>, <<R(0), R(0)>> >>,
           << <<R(0), R(0)>>, <<R(0), R(0)>> >>,
           <<R(0), R(0)>>, <<R(1), R(1)>>, R(1),
           <<GenericAnswers, GenericAnswers>>)

\* Potential 1 touches variable 0 only; variable 2 is touched by nobody.
CfgA1 ==
    RepCfg(<< <<0, 1>>, <<0>> >>,
           << <<R(1), R(1)>>, <<R(1)>> >>,
           << <<R(0), R(1)>>, <<R(0)>> >>,
           << <<R(1), R(1)>>, <<R(5)>> >>,
           <<R(0), R(2), R(1)>>,
           <<R(6), Q(3, 2), Q(1, 4)>>, R(1),
           <<GenericAnswers, GenericAnswers>>)

\* CfgA1 with row 0 in the opposite order.
CfgA2 ==
    RepCfg(<< <<1, 0>>, <<0>> >>,
           << <<R(1), R(1)>>, <<R(1)>> >>,
           << <<R(1), R(0)>>, <<R(0)>> >>,
           << <<R(1), R(1)>>, <<R(5)>> >>,
           <<R(0), R(2), R(1)>>,
           <<R(6), Q(3, 2), Q(1, 4)>>, R(1),
           <<GenericAnswers, GenericAnswers>>)

\* A single potential on a single variable with zero messages, pi_0 = 1e-8
\* and piMinThres = 1e-6; compMoments gives alpha = 2, nu = 0.5.
CfgS1 ==
    RepCfg(<< <<0>> >>, << <<R(1)>> >>, << <<R(0)>> >>, << <<R(0)>> >>,
           <<R(0)>>, <<Q(1, 100000000)>>, Q(1, 1000000),
           <<{Ans(R(2), Q(1, 2), R(1), R(2))}>>)

\* As CfgS1 with pi_00 = 1 and pi_0 = 1 + 1e-9.
CfgS2 ==
    RepCfg(<< <<0>> >>, << <<R(1)>> >>, << <<R(0)>> >>, << <<R(1)>> >>,
           <<R(0)>>, <<Q(1000000001, 1000000000)>>, Q(1, 1000000),
           <<{Ans(R(2), Q(1, 2), R(1), R(2))}>>)

\* Two potentials on one variable, pi_00 = 10, pi_10 = 1, pi_0 = 11,
\* piMinThres = 0.1; nu = -10/19 gives tilde{pi}_10 = -0.5.
CfgS3 ==
    RepCfg(<< <<0>>, <<0>> >>, << <<R(1)>>, <<R(1)>> >>,
           << <<R(0)>>, <<R(0)>> >>, << <<R(10)>>, <<R(1)>> >>,
           <<R(0)>>, <<R(11)>>, Q(1, 10),
           <<{Ans(R(0), R(0), R(1), R(2))},
             {Ans(R(1), Q(-10, 19), R(1), R(2))}>>)

\* As CfgS3 with pi_0 = 10.05; nu = -181/342 gives tilde{pi}_10 = -0.5.
CfgS4 ==
    RepCfg(<< <<0>>, <<0>> >>, << <<R(1)>>, <<R(1)>> >>,
           << <<R(0)>>, <<R(0)>> >>, << <<R(10)>>, <<R(1)>> >>,
           <<R(0)>>, <<Q(201, 20)>>, Q(1, 10),
           <<{Ans(R(0), R(0), R(1), R(2))},
             {Ans(R(1), Q(-181, 342), R(1), R(2))}>>)

\* Two potentials on the middle one of three variables; potential 0 holds
\* the maximum pi_01 = 1, pi_11 = 0, pi_1 = 3, piMinThres = 0.1; nu = -2/3
\* gives tilde{pi}_01 = -0.5.
CfgT ==
    RepCfg(<< <<1>>, <<1>> >>, << <<R(1)>>, <<R(1)>> >>,
           << <<R(0)>>, <<R(0)>> >>, << <<R(1)>>, <<R(0)>> >>,
           <<R(0), R(0), R(0)>>, <<R(1), R(3), R(1)>>, Q(1, 10),
           <<{Ans(R(0), Q(-2, 3), R(1), R(2))},
             {Ans(R(0), R(0), R(1), R(2))}>>)

RepCfgs ==
    {CfgB1, CfgB2, CfgB3, CfgA1, CfgA2, CfgS1, CfgS2, CfgS3, CfgS4, CfgT}

\* The precision part of a FactEPRepresBivarPrec on m potentials: one
\* precision variable, a_j = c_j = 1 except c_0 = c0, a_0 = c_0 = 3 as
\* marginals, aMinThres = cMinThres = 1.
TauCfg(m, c0) ==
    [tauInd |-> [j \in 0..(m - 1) |-> 0],
     aP |-> [j \in 0..(m - 1) |-> R(1)],
     cP |-> [j \in 0..(m - 1) |-> IF j = 0 THEN c0 ELSE R(1)],
     margA |-> Z(<<R(3)>>), margC |-> Z(<<R(3)>>),
     aMinThres |-> R(1), cMinThres |-> R(1)]

\* Univariate mode: no precision part (epReprPrec = 0).
NoTauCfg ==
    [tauInd |-> <<>>, aP |-> <<>>, cP |-> <<>>, margA |-> <<>>,
     margC |-> <<>>, aMinThres |-> R(0), cMinThres |-> R(0)]

\* Construction modes: [bv, idxPi, idxTau, c0].
Modes ==
    {[bv |-> FALSE, idxPi |-> FALSE, idxTau |-> FALSE, c0 |-> R(1)],
     [bv |-> FALSE, idxPi |-> TRUE, idxTau |-> FALSE, c0 |-> R(1)],
     [bv |-> TRUE, idxPi |-> FALSE, idxTau |-> FALSE, c0 |-> R(1)],
     [bv |-> TRUE, idxPi |-> TRUE, idxTau |-> TRUE, c0 |-> R(1)],
     [bv |-> TRUE, idxPi |-> TRUE, idxTau |-> TRUE, c0 |-> R(3)]}

\* The value a read of piP[vjSz] can produce.
OobValues ==
    {R(0), R(7)}

\* The damping factors callers pass; 1 is outside [0,1).
DampFacts ==
    {R(0), Q(1, 2), R(1)}

PotsOn(v, i) ==
    {j \in DOMAIN v : \E ii \in 1..Len(v[j]) : v[j][ii] = i}

PosOf(v, j, i) ==
    CHOOSE ii \in 1..Len(v[j]) : v[j][ii] = i

\* The maximum-pi index built from the messages: entry (i, j) = pi_ji for
\* every potential j with i in V_j.
PiIndex(v, pi, vs) ==
    [i \in vs |-> [j \in PotsOn(v, i) |-> pi[j][PosOf(v, j, i)]]]

\* The maximum-a (maximum-c) index built from the messages val[j].
TauIndex(tau, val, ks) ==
    [k \in ks |-> [j \in {x \in DOMAIN tau : tau[x] = k} |-> val[j]]]

\* No call made yet.
NoCall ==
    [made |-> FALSE, thrown |-> FALSE, j |-> 0, dampFact |-> R(0),
     orc |-> AnsFail, oob |-> R(0), status |-> updSuccess,
     effSet |-> FALSE, effDamp |-> R(0), called |-> FALSE,
     oobRead |-> FALSE, updLog |-> <<>>]

\* Number of sequentialUpdate calls a behaviour makes.
MaxCalls ==
    2

\* A call is followed beyond its cavity check only if the row's messages
\* and marginals have numerators and denominators up to MaxNum, so that
\* the update's arithmetic stays inside the integer range.
MaxNum ==
    500

Bounded(x) ==
    IAbs(x[1]) <= MaxNum /\ x[2] <= MaxNum

RowsBounded(s, j) ==
    \A ii \in 1..vjSz(j) :
        /\ Bounded(s.piP[j][ii])
        /\ Bounded(s.betaP[j][ii])
        /\ Bounded(s.margPi[vjInd[j][ii]])
        /\ Bounded(s.margBeta[vjInd[j][ii]])

\* The values a read of piP[vjSz] is given: none is read outside the
\* bivariate clamp.
OobChoices ==
    IF hasBVPrec /\ epMaxA.given THEN OobValues ELSE {R(0)}

Init ==
    \E c \in RepCfgs, md \in Modes :
        LET m == Cardinality(DOMAIN c.vjInd)
            tc == IF md.bv THEN TauCfg(m, md.c0) ELSE NoTauCfg
        IN  /\ vjInd = c.vjInd
            /\ bP = c.bP
            /\ betaP = c.betaP
            /\ piP = c.piP
            /\ margBeta = c.margBeta
            /\ margPi = c.margPi
            /\ piMinThres = c.piMinThres
            /\ epPots = c.epPots
            /\ tauInd = tc.tauInd
            /\ aP = tc.aP
            /\ cP = tc.cP
            /\ margA = tc.margA
            /\ margC = tc.margC
            /\ aMinThres = tc.aMinThres
            /\ cMinThres = tc.cMinThres
            /\ hasBVPrec = md.bv
            /\ epMaxPi = [given |-> md.idxPi,
                          maxv |-> IF md.idxPi
                                   THEN PiIndex(c.vjInd, c.piP,
                                                DOMAIN c.margPi)
                                   ELSE <<>>]
            /\ epMaxA = [given |-> md.idxTau,
                         maxv |-> IF md.idxTau
                                  THEN TauIndex(tc.tauInd, tc.aP,
                                                DOMAIN tc.margA)
                                  ELSE <<>>]
            /\ epMaxC = [given |-> md.idxTau,
                         maxv |-> IF md.idxTau
                                  THEN TauIndex(tc.tauInd, tc.cP,
                                                DOMAIN tc.margC)
                                  ELSE <<>>]
            /\ calls = 0
            /\ oracleFailures = 0
            /\ last = NoCall
            /\ pre = [betaP |-> c.betaP, piP |-> c.piP, aP |-> tc.aP,
                      cP |-> tc.cP, margBeta |-> c.margBeta,
                      margPi |-> c.margPi, margA |-> tc.margA,
                      margC |-> tc.margC,
                      epMaxPi |-> IF md.idxPi
                                  THEN PiIndex(c.vjInd, c.piP,
                                               DOMAIN c.margPi)
                                  ELSE <<>>,
                      epMaxA |-> IF md.idxTau
                                 THEN TauIndex(tc.tauInd, tc.aP,
                                               DOMAIN tc.margA)
                                 ELSE <<>>,
                      epMaxC |-> IF md.idxTau
                                 THEN TauIndex(tc.tauInd, tc.cP,
                                               DOMAIN tc.margC)
                                 ELSE <<>>]
            /\ replay = pre

Frozen ==
    UNCHANGED <<vjInd, bP, tauInd, piMinThres, aMinThres, cMinThres,
                hasBVPrec, epPots>>

\* The call throws InvalidParameterException (lines 287-288).
BadDampFact(dampFact) ==
    RLt(dampFact, R(0)) \/ RLe(R(1), dampFact)

\* The record of a call that returned with outcome r.
CallRecord(j, dampFact, orc, oob, r) ==
    [made |-> TRUE, thrown |-> FALSE, j |-> j, dampFact |-> dampFact,
     orc |-> IF r.called THEN orc ELSE AnsFail,
     oob |-> IF r.oobRead THEN oob ELSE R(0),
     status |-> r.status, effSet |-> r.effSet,
     effDamp |-> IF r.effSet THEN r.effDamp ELSE R(0),
     called |-> r.called, oobRead |-> r.oobRead, updLog |-> r.updLog]

\* The state a call leaves that returned with outcome r.
Returns(j, dampFact, orc, oob, r) ==
    /\ betaP' = r.post.betaP
    /\ piP' = r.post.piP
    /\ aP' = r.post.aP
    /\ cP' = r.post.cP
    /\ margBeta' = r.post.margBeta
    /\ margPi' = r.post.margPi
    /\ margA' = r.post.margA
    /\ margC' = r.post.margC
    /\ epMaxPi' = [epMaxPi EXCEPT !.maxv = r.post.epMaxPi]
    /\ epMaxA' = [epMaxA EXCEPT !.maxv = r.post.epMaxA]
    /\ epMaxC' = [epMaxC EXCEPT !.maxv = r.post.epMaxC]
    /\ last' = CallRecord(j, dampFact, orc, oob, r)

\* The mutable state an outcome leaves.
StateOf(r) ==
    [f \in DOMAIN Cur |-> r.post[f]]

\* The second driver: the call is made on it too if it returned
\* updSuccess, with the same arguments and the same answer of compMoments;
\* its read past the row gives 'oob2'.
Replays(j, dampFact, orc, oob2, r) ==
    /\ replay' = IF r.status = updSuccess
                 THEN StateOf(SeqUpdate(replay, j, dampFact, orc, oob2))
                 ELSE replay
    /\ oracleFailures' = IF r.called /\ ~orc.ok
                         THEN oracleFailures + 1
                         ELSE oracleFailures

\* sequentialUpdate(j, dampFact, 0, &effDamp) returns.
SequentialUpdate(j, dampFact, orc, oob) ==
    /\ calls < MaxCalls
    /\ ~BadDampFact(dampFact)
    /\ RowsBounded(Cur, j) \/ CavityInvalidPi(Cur, j)
    /\ Returns(j, dampFact, orc, oob, SeqUpdate(Cur, j, dampFact, orc, oob))
    /\ pre' = Cur
    /\ calls' = calls + 1
    /\ Frozen
    /\ UNCHANGED <<replay, oracleFailures>>

\* The same call with a second driver beside the first, on which the call
\* is made as well if it returns updSuccess.
SequentialUpdateReplayed(j, dampFact, orc, oob, oob2) ==
    /\ calls < MaxCalls
    /\ ~BadDampFact(dampFact)
    /\ RowsBounded(Cur, j) \/ CavityInvalidPi(Cur, j)
    /\ RowsBounded(replay, j) \/ CavityInvalidPi(replay, j)
    /\ Returns(j, dampFact, orc, oob, SeqUpdate(Cur, j, dampFact, orc, oob))
    /\ Replays(j, dampFact, orc, oob2,
               SeqUpdate(Cur, j, dampFact, orc, oob))
    /\ pre' = Cur
    /\ calls' = calls + 1
    /\ Frozen

\* sequentialUpdate(j, dampFact, ...) with dampFact outside [0,1) throws
\* before anything is read or written.
SequentialUpdateThrows(j, dampFact) ==
    /\ calls < MaxCalls
    /\ BadDampFact(dampFact)
    /\ last' = [NoCall EXCEPT !.made = TRUE, !.thrown = TRUE, !.j = j,
                              !.dampFact = dampFact]
    /\ pre' = Cur
    /\ calls' = calls + 1
    /\ UNCHANGED <<betaP, piP, aP, cP, margBeta, margPi, margA, margC,
                   epMaxPi, epMaxA, epMaxC, replay, oracleFailures>>
    /\ Frozen

Next ==
    \/ \E j \in Factors, dampFact \in DampFacts, oob \in OobChoices :
           \E orc \in epPots[j] \cup {AnsFail} :
               SequentialUpdate(j, dampFact, orc, oob)
    \/ \E j \in Factors, dampFact \in DampFacts :
           SequentialUpdateThrows(j, dampFact)

Spec ==
    Init /\ [][Next]_vars

\* Two drivers constructed alike: every call is made on the first, the
\* calls that return updSuccess on the second too.
NextReplay ==
    \/ \E j \in Factors, dampFact \in DampFacts, oob \in OobChoices :
           \E orc \in epPots[j] \cup {AnsFail}, oob2 \in OobChoices :
               SequentialUpdateReplayed(j, dampFact, orc, oob, oob2)
    \/ \E j \in Factors, dampFact \in DampFacts :
           SequentialUpdateThrows(j, dampFact)

SpecReplay ==
    Init /\ [][NextReplay]_vars

\* ------------------------------------------------------------------------
\* Properties
\* ------------------------------------------------------------------------

\* The last call returned (did not throw) with status st.
Returned(st) ==
    last.made /\ ~last.thrown /\ last.status = st

\* The last call returned with a status other than updSuccess.
Failed ==
    last.made /\ ~last.thrown /\ last.status # updSuccess

StatusOK ==
    last.status \in {updSuccess, updCavityInvalid, updNumericalError,
                     updMarginalsInvalid, updCavCondSkipped}

\* C1.  Atomicity on failure: when sequentialUpdate returns a status other
\* than updSuccess, the message parameters (pi_ji, beta_ji, a_j, c_j), the
\* marginals (pi_i, beta_i, a_k, c_k) and the entries of the maximum-value
\* indices are what they were before the call.
C1_Atomicity ==
    Failed => StatusOK /\ Cur = pre

\* A call got as far as the third loop, with an effective damping factor
\* and tentative marginals for two row positions, and failed there.
C1_Witness ==
    /\ Returned(updMarginalsInvalid)
    /\ vjSz(last.j) > 1
    /\ last.effSet
    /\ Cur = pre

\* The sum of the messages msgs[j] to variable i over the potentials js.
RECURSIVE SumMsgs(_, _, _)
SumMsgs(msgs, i, js) ==
    IF js = {}
    THEN R(0)
    ELSE LET j == CHOOSE x \in js : TRUE
         IN  RAdd(msgs[j][PosOf(vjInd, j, i)], SumMsgs(msgs, i, js \ {j}))

\* pi_i = sum_j pi_ji and beta_i = sum_j beta_ji for every variable i.
SumInv(s) ==
    \A i \in Variables :
        /\ s.margPi[i] = SumMsgs(s.piP, i, PotsOn(vjInd, i))
        /\ s.margBeta[i] = SumMsgs(s.betaP, i, PotsOn(vjInd, i))

\* C2.  Marginal-sum conservation: if pi_i = sum_j pi_ji and beta_i =
\* sum_j beta_ji hold for every variable before a call of sequentialUpdate,
\* they hold after it, whatever it returns; by induction they hold after
\* any sequence of calls that starts where they hold.
C2_SumConservation ==
    (last.made /\ SumInv(pre)) => SumInv(Cur)

\* A successful update changed messages of a state in which the sums hold.
C2_Witness ==
    /\ Returned(updSuccess)
    /\ SumInv(pre)
    /\ piP # pre.piP
    /\ betaP # pre.betaP

\* The largest message precision to variable i.
MaxMsg(s, i) ==
    RMaxOf({s.piP[j][PosOf(vjInd, j, i)] : j \in PotsOn(vjInd, i)})

\* The index answers max_j pi_ji for every variable some potential touches.
MaxInv(s) ==
    \A i \in Variables :
        PotsOn(vjInd, i) # {} => getMaxValue(s.epMaxPi, i) = MaxMsg(s, i)

\* The update calls a successful update on j makes: (i, j, new pi_ji) for
\* every row position.
ExpectedUpdates(j) ==
    [ii \in 1..vjSz(j) |-> <<vjInd[j][ii], j, piP[j][ii]>>]

\* C3.  Max-index consistency: with a maximum-pi index supplied that
\* answers max_j pi_ji for every variable before a call, it does so after
\* the call; the call makes the update calls (i, j, new pi_ji) for every i
\* in V_j when it returns updSuccess and no update call otherwise.
C3_MaxIndex ==
    (epMaxPi.given /\ last.made) =>
        /\ MaxInv(pre) => MaxInv(Cur)
        /\ last.updLog = IF Returned(updSuccess)
                         THEN ExpectedUpdates(last.j)
                         ELSE <<>>

\* A successful update changed the maximum of some variable.
C3_Witness ==
    /\ epMaxPi.given
    /\ Returned(updSuccess)
    /\ MaxInv(pre)
    /\ \E i \in Variables :
           /\ PotsOn(vjInd, i) # {}
           /\ getMaxValue(epMaxPi.maxv, i) # getMaxValue(pre.epMaxPi, i)

\* Univariate mode with a maximum-pi index.
UniWithIndex ==
    ~hasBVPrec /\ epMaxPi.given

\* Variable i occurs in some V_j.
Touched(i) ==
    PotsOn(vjInd, i) # {}

\* pi_i - kappa_i >= piMin and pi_i >= piMin for every variable, kappa_i
\* the largest message precision to i.
SlackInv(s) ==
    \A i \in Variables :
        /\ RLe(piMinThres, s.margPi[i])
        /\ Touched(i) => RLe(piMinThres, RSub(s.margPi[i], MaxMsg(s, i)))

\* C4.  Selective damping preserves the slack: in univariate mode with a
\* maximum-pi index, if pi_i - kappa_i >= piMin and pi_i >= piMin hold for
\* every variable before a call of sequentialUpdate with damping in
\* [0,1), they hold after it, for every potential and oracle answer.
C4_SlackPreserved ==
    (UniWithIndex /\ last.made /\ ~last.thrown /\ SlackInv(pre))
        => SlackInv(Cur)

\* A successful update whose damping factor selective damping raised.
C4_Witness ==
    /\ UniWithIndex
    /\ Returned(updSuccess)
    /\ SlackInv(pre)
    /\ RLt(last.dampFact, last.effDamp)
    /\ piP # pre.piP

\* pi_i >= piMin/2 for every variable that occurs in some V_j.
FloorInv(s) ==
    \A i \in Variables : Touched(i) => RLe(RMul(Q(1, 2), piMinThres),
                                           s.margPi[i])

\* C5.  Marginal precision floor: if pi_i >= piMin/2 holds for every
\* variable that occurs in some V_j before a call of sequentialUpdate, it
\* holds after it, with or without a maximum-pi index; so it holds in
\* every state reached from an initial state in which it holds.
C5_PrecisionFloor ==
    (last.made /\ FloorInv(pre)) => FloorInv(Cur)

\* A successful update lowered a marginal precision.
C5_Witness ==
    /\ Returned(updSuccess)
    /\ FloorInv(pre)
    /\ \E ii \in 1..vjSz(last.j) :
           RLt(margPi[vjInd[last.j][ii]], pre.margPi[vjInd[last.j][ii]])

\* Some cavity precision of potential j is below half its threshold.
CavCond(s, j) ==
    \/ \E ii \in 1..vjSz(j) :
           RLt(RSub(s.margPi[vjInd[j][ii]], s.piP[j][ii]),
               RMul(Q(1, 2), piMinThres))
    \/ /\ hasBVPrec
       /\ \/ RLt(RSub(s.margA[tauInd[j]], s.aP[j]),
                 RMul(Q(1, 2), aMinThres))
          \/ RLt(RSub(s.margC[tauInd[j]], s.cP[j]),
                 RMul(Q(1, 2), cMinThres))

\* The call was made on potential 0 with pi_00 = 1 and pi_0 = 1 + 1e-9.
NearlyEqualCase ==
    /\ last.made
    /\ ~last.thrown
    /\ last.j = 0
    /\ pre.piP[0][1] = R(1)
    /\ pre.margPi[vjInd[0][1]] = Q(1000000001, 1000000000)

\* C6.  CavityInvalid condition: a call of sequentialUpdate(j, d) with d in
\* [0,1) returns updCavityInvalid exactly if some cavity precision pi_i -
\* pi_ji, i in V_j, is below piMin/2 or, in bivariate mode, a_k(j) - a_j <
\* aMin/2 or c_k(j) - c_j < cMin/2; then compMoments is not called and the
\* state is unchanged; pi_00 = 1, pi_0 = 1 + 1e-9 gives updCavityInvalid.
C6_CavityInvalid ==
    (last.made /\ ~last.thrown) =>
        /\ last.status = updCavityInvalid <=> CavCond(pre, last.j)
        /\ CavCond(pre, last.j) => ~last.called /\ Cur = pre
        /\ NearlyEqualCase => last.status = updCavityInvalid

\* The call with pi_00 = 1, pi_0 = 1 + 1e-9 returned updCavityInvalid.
C6_Witness ==
    /\ NearlyEqualCase
    /\ Returned(updCavityInvalid)
    /\ ~last.called

\* The call reached compMoments: it returned, and every cavity was valid.
CavitiesValid ==
    last.made /\ ~last.thrown /\ ~CavCond(pre, last.j)

\* The update denominator of row position ii: pi^c/b^2 - nu for |b| above
\* 1e-6, pi^c - nu*b^2 otherwise.
DenomAt(s, j, ii, nu) ==
    IF GtPow10(RAbs(bP[j][ii]), 6)
    THEN RSub(RDiv(RSub(s.margPi[vjInd[j][ii]], s.piP[j][ii]),
                   RMul(bP[j][ii], bP[j][ii])),
              nu)
    ELSE RSub(RSub(s.margPi[vjInd[j][ii]], s.piP[j][ii]),
              RMul(nu, RMul(bP[j][ii], bP[j][ii])))

\* The update denominator of row position ii is below 1e-10.
DenomSmallAt(s, j, ii, nu) ==
    LtPow10(DenomAt(s, j, ii, nu), 10)

\* Row position ii meets the condition of updCavCondSkipped: the undamped
\* precision is below pi_ji, kappa_i > 0 and 1-eta <= 0.02.
SkipCondAt(s, j, ii, nu) ==
    /\ RLt(UndampedPi(s, j, ii, nu), s.piP[j][ii])
    /\ RLt(R(0), MaxMsg(s, vjInd[j][ii]))
    /\ RLe(RMin(RDiv(RSub(RSub(s.margPi[vjInd[j][ii]],
                                MaxMsg(s, vjInd[j][ii])),
                           piMinThres),
                      RSub(s.piP[j][ii], UndampedPi(s, j, ii, nu))),
                 R(1)),
           Q(1, 50))

\* Row position ii has the first denominator below 1e-10.
FirstSmallAt(s, j, ii, nu) ==
    /\ DenomSmallAt(s, j, ii, nu)
    /\ \A i2 \in 1..(ii - 1) : ~DenomSmallAt(s, j, i2, nu)

\* No row position before ii meets the condition of updCavCondSkipped
\* with a maximum-pi index supplied.
NoSkipBefore(s, j, ii, nu) ==
    epMaxPi.given => \A i2 \in 1..(ii - 1) : ~SkipCondAt(s, j, i2, nu)

\* C7.  NumericalError condition: when all cavities are valid,
\* sequentialUpdate returns updNumericalError if compMoments reports
\* failure, or if some row position has an update denominator below 1e-10
\* (pi^c/b^2 - nu for |b| above 1e-6, pi^c - nu*b^2 otherwise) and no
\* position before the first such one meets the condition of
\* updCavCondSkipped; the state is unchanged.
C7_NumericalError ==
    CavitiesValid =>
        /\ ~last.orc.ok => last.status = updNumericalError /\ Cur = pre
        /\ \A ii \in 1..vjSz(last.j) :
               (/\ last.orc.ok
                /\ FirstSmallAt(pre, last.j, ii, last.orc.nu)
                /\ NoSkipBefore(pre, last.j, ii, last.orc.nu))
                   => last.status = updNumericalError /\ Cur = pre

\* A denominator below 1e-10 at the second row position gave
\* updNumericalError.
C7_Witness ==
    /\ CavitiesValid
    /\ last.orc.ok
    /\ vjSz(last.j) > 1
    /\ FirstSmallAt(pre, last.j, 2, last.orc.nu)
    /\ NoSkipBefore(pre, last.j, 2, last.orc.nu)
    /\ Returned(updNumericalError)
    /\ Cur = pre

\* C7 as stated: when all cavities are valid, sequentialUpdate returns
\* updNumericalError if compMoments reports failure or some row position
\* has an update denominator below 1e-10; the state is unchanged.
C7_AsStated ==
    (/\ CavitiesValid
     /\ \/ ~last.orc.ok
        \/ \E ii \in 1..vjSz(last.j) :
               DenomSmallAt(pre, last.j, ii, last.orc.nu))
        => last.status = updNumericalError /\ Cur = pre

\* The row positions of potential j whose undamped precision is below
\* pi_ji.
Decreasing(s, j, nu) ==
    {ii \in 1..vjSz(j) : RLt(UndampedPi(s, j, ii, nu), s.piP[j][ii])}

\* 1 - min((pi_i - kappa_i - piMin)/(pi_ji - pitilde_ji), 1) for a
\* decreasing row position ii.
DampNeeded(s, j, ii, nu) ==
    RSub(R(1),
         RMin(RDiv(RSub(RSub(s.margPi[vjInd[j][ii]],
                             MaxMsg(s, vjInd[j][ii])),
                        piMinThres),
                   RSub(s.piP[j][ii], UndampedPi(s, j, ii, nu))),
              R(1)))

\* The maximum of d and of the damping needed by the decreasing row
\* positions: a maximum over a set, the same for every order of the row.
ExpectedDamp(s, j, d, nu) ==
    RMaxOf({d} \cup {DampNeeded(s, j, ii, nu) : ii \in Decreasing(s, j, nu)})

\* The messages of row j are the undamped ones damped by d.
DampApplied(j, d, alpha, nu) ==
    \A ii \in 1..vjSz(j) :
        /\ piP[j][ii] =
               RAdd(UndampedPi(pre, j, ii, nu),
                    RMul(d, RSub(pre.piP[j][ii], UndampedPi(pre, j, ii, nu))))
        /\ betaP[j][ii] =
               RAdd(UndampedBeta(pre, j, ii, alpha, nu),
                    RMul(d, RSub(pre.betaP[j][ii],
                                 UndampedBeta(pre, j, ii, alpha, nu))))

\* The call of scenario S3: potential 1 with d = 0 on pi_0 = 11, pi_00 =
\* 10, pi_10 = 1, piMin = 0.1, univariate with index, the oracle's nu
\* giving pitilde_10 = -0.5.
ClampScenario ==
    /\ last.made
    /\ ~last.thrown
    /\ UniWithIndex
    /\ last.j = 1
    /\ last.dampFact = R(0)
    /\ piMinThres = Q(1, 10)
    /\ vjInd[0] = <<0>>
    /\ vjInd[1] = <<0>>
    /\ pre.margPi[0] = R(11)
    /\ pre.piP[0][1] = R(10)
    /\ pre.piP[1][1] = R(1)
    /\ last.called
    /\ last.orc.ok
    /\ UndampedPi(pre, 1, 1, last.orc.nu) = Q(-1, 2)

ReachedAt(s, j, ii, nu) ==
    /\ \A i2 \in 1..ii : ~DenomSmallAt(s, j, i2, nu)
    /\ \A i2 \in 1..(ii - 1) :
           ~(/\ RLt(UndampedPi(s, j, i2, nu), s.piP[j][i2])
             /\ RLe(MaxMsg(s, vjInd[j][i2]), R(0)))

\* compMoments was called with a maximum-pi index supplied, and answered.
AnsweredWithIndex ==
    /\ last.made
    /\ ~last.thrown
    /\ epMaxPi.given
    /\ last.called
    /\ last.orc.ok

\* The call of scenario S4: as S3 with pi_0 = 10.05.
SkipScenario ==
    /\ AnsweredWithIndex
    /\ last.j = 1
    /\ piMinThres = Q(1, 10)
    /\ vjInd[0] = <<0>>
    /\ vjInd[1] = <<0>>
    /\ pre.margPi[0] = Q(201, 20)
    /\ pre.piP[0][1] = R(10)
    /\ pre.piP[1][1] = R(1)
    /\ UndampedPi(pre, 1, 1, last.orc.nu) = Q(-1, 2)

\* C9.  Skipped condition: with a maximum-pi index supplied, if some row
\* position the second loop reaches has its undamped precision below
\* pi_ji, kappa_i > 0 and min((pi_i - kappa_i - piMin)/(pi_ji -
\* pitilde_ji), 1) <= 0.02, sequentialUpdate returns updCavCondSkipped,
\* sets *effDamp to 1.0 and leaves the state unchanged; so in scenario S4.
C9_Skipped ==
    /\ AnsweredWithIndex =>
           \A ii \in 1..vjSz(last.j) :
               (/\ ReachedAt(pre, last.j, ii, last.orc.nu)
                /\ SkipCondAt(pre, last.j, ii, last.orc.nu))
                   => /\ last.status = updCavCondSkipped
                      /\ last.effSet
                      /\ last.effDamp = R(1)
                      /\ Cur = pre
    /\ SkipScenario =>
           /\ last.status = updCavCondSkipped
           /\ last.effDamp = R(1)
           /\ Cur = pre

\* Scenario S4 returned updCavCondSkipped with *effDamp = 1.0.
C9_Witness ==
    /\ SkipScenario
    /\ SkipCondAt(pre, 1, 1, last.orc.nu)
    /\ Returned(updCavCondSkipped)
    /\ last.effSet
    /\ last.effDamp = R(1)
    /\ Cur = pre

\* C9 as stated: with a maximum-pi index supplied, if some row position
\* has its undamped precision below pi_ji, kappa_i > 0 and 1-eta <= 0.02,
\* sequentialUpdate returns updCavCondSkipped with *effDamp = 1.0 and the
\* state unchanged.
C9_AsStated ==
    AnsweredWithIndex =>
        \A ii \in 1..vjSz(last.j) :
            (/\ ~DenomSmallAt(pre, last.j, ii, last.orc.nu)
             /\ SkipCondAt(pre, last.j, ii, last.orc.nu))
                => /\ last.status = updCavCondSkipped
                   /\ last.effDamp = R(1)
                   /\ Cur = pre

\* compMoments answered (alpha, nu) = (0, 0).
TrivialAnswer ==
    /\ last.made
    /\ ~last.thrown
    /\ last.called
    /\ last.orc.ok
    /\ last.orc.alpha = R(0)
    /\ last.orc.nu = R(0)

\* The messages of row j are d times what they were before the call.
RowScaled(j, d) ==
    \A ii \in 1..vjSz(j) :
        /\ piP[j][ii] = RMul(d, pre.piP[j][ii])
        /\ betaP[j][ii] = RMul(d, pre.betaP[j][ii])

\* C10.  Trivial moment matching: for every state with valid cavities and
\* every potential j, if compMoments answers (alpha, nu) = (0, 0), then
\* after sequentialUpdate(j, d) the messages of the other potentials are
\* unchanged, and pi_ji, beta_ji are the effective damping factor times
\* their values before the call when it returns updSuccess and unchanged
\* otherwise.
C10_TrivialMoments ==
    TrivialAnswer =>
        /\ \A j \in Factors \ {last.j} :
               piP[j] = pre.piP[j] /\ betaP[j] = pre.betaP[j]
        /\ IF last.status = updSuccess
           THEN RowScaled(last.j, last.effDamp)
           ELSE piP = pre.piP /\ betaP = pre.betaP

\* A successful update with the answer (0, 0) and damping 1/2 halved
\* non-zero messages.
C10_Witness ==
    /\ TrivialAnswer
    /\ Returned(updSuccess)
    /\ last.effDamp = Q(1, 2)
    /\ RowScaled(last.j, Q(1, 2))
    /\ piP # pre.piP
    /\ betaP # pre.betaP

\* C10 as stated: if compMoments answers (alpha, nu) = (0, 0), all
\* messages pi_ji and beta_ji are unchanged by the call.
C10_AsStated ==
    TrivialAnswer => piP = pre.piP /\ betaP = pre.betaP

\* The undamped precision messages atilde_j = ahat - abar and ctilde_j =
\* chat - cbar of the call 'last', from the state before it.
ATilde ==
    RSub(last.orc.hatA, RSub(pre.margA[tauInd[last.j]], pre.aP[last.j]))

CTilde ==
    RSub(last.orc.hatC, RSub(pre.margC[tauInd[last.j]], pre.cP[last.j]))

\* A bivariate call returned updSuccess.
BivarSuccess ==
    hasBVPrec /\ Returned(updSuccess)

\* C11 as stated.  Bivariate commit: in bivariate mode a updSuccess of
\* sequentialUpdate(j, d) writes a_j and c_j (atilde_j and ctilde_j damped
\* by the effective d) and sets a_k(j) = abar + a_j, c_k(j) = cbar + c_j.
C11_AsStated ==
    BivarSuccess =>
        /\ aP[last.j] =
               RAdd(ATilde, RMul(last.effDamp, RSub(pre.aP[last.j], ATilde)))
        /\ cP[last.j] =
               RAdd(CTilde, RMul(last.effDamp, RSub(pre.cP[last.j], CTilde)))
        /\ margA[tauInd[last.j]] =
               RAdd(RSub(pre.margA[tauInd[last.j]], pre.aP[last.j]),
                    aP[last.j])
        /\ margC[tauInd[last.j]] =
               RAdd(RSub(pre.margC[tauInd[last.j]], pre.cP[last.j]),
                    cP[last.j])

\* The second loop runs to its end on row j: no denominator is below
\* 1e-10 and, with a maximum-pi index, every decreasing row position has
\* kappa_i > 0 and 1-eta > 0.02.
LoopPasses(s, j, nu) ==
    /\ \A ii \in 1..vjSz(j) : ~DenomSmallAt(s, j, ii, nu)
    /\ epMaxPi.given =>
           \A ii \in Decreasing(s, j, nu) :
               /\ RLt(R(0), MaxMsg(s, vjInd[j][ii]))
               /\ ~SkipCondAt(s, j, ii, nu)

\* The damping factor the second loop ends with.
LoopDamp(s, j, d, nu) ==
    IF epMaxPi.given THEN ExpectedDamp(s, j, d, nu) ELSE d

\* The largest a_j (c_j) among the potentials of precision variable k.
KappaA(s, k) ==
    RMaxOf({s.aP[j] : j \in {x \in Factors : tauInd[x] = k}})

KappaC(s, k) ==
    RMaxOf({s.cP[j] : j \in {x \in Factors : tauInd[x] = k}})

\* min((a_k - kappa^a_k - aMin)/(a_j - atilde_j), 1) of the call 'last',
\* and the same for c.
OneMinusEtaA ==
    RMin(RDiv(RSub(RSub(pre.margA[tauInd[last.j]],
                        KappaA(pre, tauInd[last.j])),
                   aMinThres),
              RSub(pre.aP[last.j], ATilde)),
         R(1))

OneMinusEtaC ==
    RMin(RDiv(RSub(RSub(pre.margC[tauInd[last.j]],
                        KappaC(pre, tauInd[last.j])),
                   cMinThres),
              RSub(pre.cP[last.j], CTilde)),
         R(1))

\* The clamps of a and c that the call 'last' has to apply.
TauClamps ==
    (IF RLt(ATilde, pre.aP[last.j]) THEN {OneMinusEtaA} ELSE {})
        \cup (IF RLt(CTilde, pre.cP[last.j]) THEN {OneMinusEtaC} ELSE {})

\* A bivariate call with the a and c indices whose second loop ran to its
\* end, with atilde_j < a_j.
TauClampCase ==
    /\ last.made
    /\ ~last.thrown
    /\ hasBVPrec
    /\ epMaxA.given
    /\ epMaxC.given
    /\ last.called
    /\ last.orc.ok
    /\ LoopPasses(pre, last.j, last.orc.nu)
    /\ RLt(ATilde, pre.aP[last.j])

\* C12 as stated.  In bivariate mode with indices for a and c, when
\* atilde_j < a_j the clamp is 1 - min((a_k - kappa^a_k - aMin)/(a_j -
\* atilde_j), 1), likewise for c when ctilde_j < c_j, and no pi-quantity
\* enters: the call is skipped if a clamp has 1-eta <= 0.02, and otherwise
\* goes on with the largest of the loop's damping factor and the clamps,
\* without reading a message precision.
C12_AsStated ==
    TauClampCase =>
        /\ ~last.oobRead
        /\ IF \E x \in TauClamps : RLe(x, SkipThres)
           THEN last.status = updCavCondSkipped
           ELSE /\ last.status \in {updSuccess, updMarginalsInvalid}
                /\ last.effDamp =
                       RMaxOf({LoopDamp(pre, last.j, last.dampFact,
                                        last.orc.nu)}
                              \cup {RSub(R(1), x) : x \in TauClamps})

\* C12 as stated, leaving aside which memory the clamp reads: the status
\* and the damping factor reported.
C12_DampAsStated ==
    TauClampCase =>
        IF \E x \in TauClamps : RLe(x, SkipThres)
        THEN last.status = updCavCondSkipped
        ELSE /\ last.status \in {updSuccess, updMarginalsInvalid}
             /\ last.effDamp =
                    RMaxOf({LoopDamp(pre, last.j, last.dampFact,
                                     last.orc.nu)}
                           \cup {RSub(R(1), x) : x \in TauClamps})

C13_WithoutTauClamp ==
    ~(hasBVPrec /\ epMaxA.given) => replay = Cur

\* compMoments answered, the second loop ran to its end and the call was
\* not skipped by a selective damping: the third loop is reached.
ChecksPassed ==
    /\ CavitiesValid
    /\ last.called
    /\ last.orc.ok
    /\ LoopPasses(pre, last.j, last.orc.nu)
    /\ last.status # updCavCondSkipped

\* pi^c_ji + pihat_ji of row position ii: the cavity precision plus the
\* undamped precision damped with d.
TentativeMargPi(s, j, ii, d, nu) ==
    RAdd(RSub(s.margPi[vjInd[j][ii]], s.piP[j][ii]),
         RAdd(RMul(RSub(R(1), d), UndampedPi(s, j, ii, nu)),
              RMul(d, s.piP[j][ii])))

\* Some tentative new marginal precision of the call 'last' is below
\* piMin/2.
TentativeBelowFloor ==
    \E ii \in 1..vjSz(last.j) :
        RLt(TentativeMargPi(pre, last.j, ii, last.effDamp, last.orc.nu),
            RDiv(piMinThres, R(2)))

Scenario1 ==
    /\ last.made
    /\ ~last.thrown
    /\ ~hasBVPrec
    /\ ~epMaxPi.given
    /\ Factors = {0}
    /\ Variables = {0}
    /\ vjInd[0] = <<0>>
    /\ bP[0] = <<R(1)>>
    /\ pre.piP[0] = <<R(0)>>
    /\ pre.betaP[0] = <<R(0)>>
    /\ pre.margBeta[0] = R(0)
    /\ pre.margPi[0] = Q(1, 100000000)
    /\ piMinThres = Q(1, 1000000)
    /\ last.j = 0
    /\ last.dampFact = R(0)
    /\ \A a \in epPots[0] : a.alpha = R(2) /\ a.nu = Q(1, 2)
    /\ last.called => last.orc \in epPots[0]

\* x is within 1e-6 of y.
Within6(x, y) ==
    RLe(RAbs(RSub(x, y)), Q(1, 1000000))

\* C15.  Scenario S1: the cavity precision pi_0 - pi_00 = 1e-8 is below
\* piMin/2 = 5e-7, so sequentialUpdate(0) returns updCavityInvalid without
\* calling compMoments and leaves pi_0 = 1e-8, beta_0 = 0 and the
\* messages as they were.
C15_Scenario1 ==
    Scenario1 =>
        /\ last.status = updCavityInvalid
        /\ ~last.called
        /\ Cur = pre
        /\ margPi[0] = Q(1, 100000000)
        /\ margBeta[0] = R(0)

\* The call of scenario S1 returned updCavityInvalid.
C15_Witness ==
    /\ Scenario1
    /\ Returned(updCavityInvalid)
    /\ RLt(RSub(pre.margPi[0], pre.piP[0][1]), RDiv(piMinThres, R(2)))
    /\ Cur = pre

\* C15 as stated: in scenario S1 sequentialUpdate(0) returns updSuccess
\* and leaves pi_0 within 1e-6 of 0.5 and beta_0 within 1e-6 of 2.0.
C15_AsStated ==
    Scenario1 =>
        /\ last.status = updSuccess
        /\ Within6(margPi[0], Q(1, 2))
        /\ Within6(margBeta[0], R(2))

\* kappa_i > 0 for every variable that occurs in some V_j.
KappaPositive(s) ==
    \A i \in Variables : Touched(i) => RLt(R(0), MaxMsg(s, i))

\* pi_ji of row position ii after the update clamped with damping d.
ClampedPi(s, j, ii, d, nu) ==
    RAdd(RMul(RSub(R(1), d), UndampedPi(s, j, ii, nu)),
         RMul(d, s.piP[j][ii]))

\* kappa_i for the variable of row position ii after the clamped update:
\* the maximum of the new pi_ji and the other potentials' pi_ki.
NewKappa(s, j, ii, d, nu) ==
    RMaxOf({ClampedPi(s, j, ii, d, nu)}
           \cup {s.piP[k][PosOf(vjInd, k, vjInd[j][ii])] :
                    k \in PotsOn(vjInd, vjInd[j][ii]) \ {j}})

\* Potential j holds the maximum at row position ii, its undamped
\* precision is lower, and the clamped update makes the new kappa
\* non-positive.
TieBreakAt(s, j, ii, d, nu) ==
    /\ s.piP[j][ii] = MaxMsg(s, vjInd[j][ii])
    /\ RLt(UndampedPi(s, j, ii, nu), s.piP[j][ii])
    /\ RLe(NewKappa(s, j, ii, LoopDamp(s, j, d, nu), nu), R(0))

\* A call with a maximum-pi index that passes every check of the second
\* loop, does not enter the bivariate selective damping, and has a row
\* position in the tie-break case.
TieBreakCase ==
    /\ AnsweredWithIndex
    /\ LoopPasses(pre, last.j, last.orc.nu)
    /\ ~last.oobRead
    /\ \E ii \in 1..vjSz(last.j) :
           TieBreakAt(pre, last.j, ii, last.dampFact, last.orc.nu)

\* C16 as stated.  Tie-break when potential j holds the maximum: with a
\* maximum-pi index supplied, if pi_ji equals kappa_i, pitilde_ji < pi_ji
\* and the clamped update would make the new kappa_i non-positive,
\* sequentialUpdate returns updCavCondSkipped and leaves the state
\* unchanged; hence kappa_i > 0 for every i is preserved by every call.
C16_AsStated ==
    /\ TieBreakCase => last.status = updCavCondSkipped /\ Cur = pre
    /\ (last.made /\ ~last.thrown /\ epMaxPi.given /\ KappaPositive(pre))
           => KappaPositive(Cur)

\* The variables of row j.
VarsOf(j) ==
    {vjInd[j][ii] : ii \in 1..vjSz(j)}

\* The step is a call of sequentialUpdate(j, d) that returns updSuccess.
SuccessStep(j) ==
    /\ calls' = calls + 1
    /\ last'.made
    /\ ~last'.thrown
    /\ last'.j = j
    /\ last'.status = updSuccess

\* The entries of a maximum index other than those in 'touched' (pairs
\* <<i, j>>) are as they were.
IndexKept(old, new, touched) ==
    /\ DOMAIN new = DOMAIN old
    /\ \A i \in DOMAIN old :
           /\ DOMAIN new[i] = DOMAIN old[i]
           /\ \A k \in DOMAIN old[i] :
                  <<i, k>> \notin touched => new[i][k] = old[i][k]

\* What a successful update of potential j leaves alone.
FrameOf(j) ==
    /\ vjInd' = vjInd
    /\ bP' = bP
    /\ tauInd' = tauInd
    /\ \A k \in Factors \ {j} :
           piP'[k] = piP[k] /\ betaP'[k] = betaP[k]
    /\ Len(piP'[j]) = vjSz(j)
    /\ Len(betaP'[j]) = vjSz(j)
    /\ \A i \in Variables \ VarsOf(j) :
           margPi'[i] = margPi[i] /\ margBeta'[i] = margBeta[i]
    /\ DOMAIN margPi' = DOMAIN margPi
    /\ DOMAIN margBeta' = DOMAIN margBeta
    /\ IndexKept(epMaxPi.maxv, epMaxPi'.maxv, {<<i, j>> : i \in VarsOf(j)})
    /\ \A k \in DOMAIN aP \ {j} : aP'[k] = aP[k] /\ cP'[k] = cP[k]
    /\ DOMAIN aP' = DOMAIN aP
    /\ DOMAIN cP' = DOMAIN cP
    /\ hasBVPrec =>
           /\ \A k \in DOMAIN margA \ {tauInd[j]} :
                  margA'[k] = margA[k] /\ margC'[k] = margC[k]
           /\ IndexKept(epMaxA.maxv, epMaxA'.maxv, {<<tauInd[j], j>>})
           /\ IndexKept(epMaxC.maxv, epMaxC'.maxv, {<<tauInd[j], j>>})
    /\ ~hasBVPrec =>
           /\ aP' = aP
           /\ cP' = cP
           /\ margA' = margA
           /\ margC' = margC

\* C17.  Frame of a successful update: a updSuccess of sequentialUpdate(j,
\* d) changes only the messages pi_ji, beta_ji of row j, the marginals
\* pi_i, beta_i of the variables i in V_j and the maximum-index entries
\* (i, j) for i in V_j (and, in bivariate mode, a_j, c_j, a_k(j), c_k(j));
\* the messages of every other potential, the marginals of every variable
\* outside V_j, the design matrix B and the V_j are unchanged.
C17_Frame ==
    [][\A j \in Factors : SuccessStep(j) => FrameOf(j)]_vars

\* A successful update changed messages and marginals of its row while
\* another potential and a variable outside the row exist.
C17_Witness ==
    /\ Returned(updSuccess)
    /\ Variables \ VarsOf(last.j) # {}
    /\ Factors \ {last.j} # {}
    /\ piP[last.j] # pre.piP[last.j]
    /\ \E i \in VarsOf(last.j) : margPi[i] # pre.margPi[i]
    /\ \A i \in Variables \ VarsOf(last.j) : margPi[i] = pre.margPi[i]

====
